---- MODULE Spec2Model ----
(***************************************************************************)
(* HRMS backend: the employee and attendance services over the two        *)
(* storage backends (SQLite tables, MongoDB collections).                  *)
(*                                                                         *)
(* The store is two insertion-ordered sequences of rows/documents.  Every  *)
(* service method is a function of the store and its arguments; a writing  *)
(* method is one action of the sequential specifications (SpecEmployees,   *)
(* Spec, SpecSummary: the same actions over different request sets), the   *)
(* list and summary reads are evaluated in every state.  The concurrent    *)
(* specification SpecConc splits the two create methods into their store   *)
(* round trips (one step per query/insert).                                *)
(***************************************************************************)
EXTENDS Integers, Sequences, FiniteSets, TLC

\* ---------------------------------------------------------------- bounds
MaxClock == 2      \* employee creations per behaviour (created_at values)
MaxAttId == 2      \* attendance inserts per behaviour (assigned ids)

\* ---------------------------------------------------------------- inputs
Backends == {"mongodb", "sqlite"}
Ids      == {"E001", "E002"}
Names    == {"Ann", "Bob"}
Emails   == {"a@x.com", "b@x.com"}
Depts    == {"HR", "IT"}
Dates    == {"2024-01-01", "2024-01-02"}
Statuses == {"Present", "Absent"}
AttIds   == 1..MaxAttId
Procs    == {1, 2}

Fields   == {"name", "email", "department"}
FieldVals == [name |-> Names, email |-> Emails, department |-> Depts]

\* EmployeeCreate: a validated create request
EmployeeCreate ==
    [id : Ids, name : Names, email : Emails, department : Depts]

\* EmployeeUpdate.model_dump(exclude_unset=True): the supplied fields only
EmployeeUpdate ==
    { u \in UNION { [S -> Names \cup Emails \cup Depts] : S \in SUBSET Fields } :
        \A f \in DOMAIN u : u[f] \in FieldVals[f] }

\* AttendanceCreate: a validated create request
AttendanceCreate ==
    [employee_id : Ids, date : Dates, status : Statuses]

None == [none |-> TRUE]

VARIABLES
    db_type,      \* Database.db_type, fixed at construction
    employees,    \* employees table / collection, in insertion order
    attendance,   \* attendance table / collection, in insertion order
    clock,        \* time source of created_at
    next_att_id,  \* AUTOINCREMENT counter / ObjectId generator
    last,         \* the last finished service call: [op, res]
    pc,           \* per request handler: position inside a create (SpecConc)
    connections   \* open sqlite connections / open MongoClient instances

vars == <<db_type, employees, attendance, clock, next_att_id, last, pc,
          connections>>

is_mongodb == db_type = "mongodb"

Idle == [at |-> "idle"]

\* ------------------------------------------------------- sequence helpers
Range(s) == { s[i] : i \in DOMAIN s }

RECURSIVE Filter(_, _)
\* the elements of s that are in the set keep, in order
Filter(s, keep) ==
    IF s = <<>> THEN <<>>
    ELSE IF Head(s) \in keep THEN <<Head(s)>> \o Filter(Tail(s), keep)
         ELSE Filter(Tail(s), keep)

\* the first element of s that is in the set keep, or None
First(s, keep) ==
    IF Filter(s, keep) = <<>> THEN None ELSE Head(Filter(s, keep))

RECURSIVE RemoveFirst(_, _)
\* s without its first element that is in the set keep
RemoveFirst(s, keep) ==
    IF s = <<>> THEN <<>>
    ELSE IF Head(s) \in keep THEN Tail(s)
         ELSE <<Head(s)>> \o RemoveFirst(Tail(s), keep)

Count(s, keep) == Len(Filter(s, keep))

\* ------------------------------------------------------------ the store
\* sqlite3.connect() leaves PRAGMA foreign_keys at its default, off: the
\* FOREIGN KEY ... ON DELETE CASCADE clause of the DDL is not enforced.
foreign_keys == FALSE

\* employees: id TEXT PRIMARY KEY, email TEXT UNIQUE NOT NULL
employees_constraint(row) ==
    \A r \in Range(employees) : r.id # row.id /\ r.email # row.email

\* attendance: UNIQUE(employee_id, date); the FOREIGN KEY only if enforced
attendance_constraint(row) ==
    /\ \A r \in Range(attendance) :
          ~(r.employee_id = row.employee_id /\ r.date = row.date)
    /\ foreign_keys => \E e \in Range(employees) : e.id = row.employee_id

\* whether the store takes the insert: a collection takes every document
\* (no unique index is ever created), a table checks its constraints
insert_accepts_unique_index(collection_name, document) ==
    IF collection_name = "employees" THEN employees_constraint(document)
    ELSE attendance_constraint(document)

\* tables declared without their UNIQUE / PRIMARY KEY constraints
insert_accepts_any(collection_name, document) == TRUE

insert_accepts(collection_name, document) ==
    \/ is_mongodb
    \/ IF collection_name = "employees" THEN employees_constraint(document)
       ELSE attendance_constraint(document)

\* what a delete of the employee leaves of the attendance store
cascade_always(employee_id) ==
    Filter(attendance, { r \in Range(attendance) : r.employee_id # employee_id })

on_delete_cascade(employee_id) ==
    IF ~is_mongodb /\ foreign_keys
    THEN Filter(attendance,
                { r \in Range(attendance) : r.employee_id # employee_id })
    ELSE attendance

\* Database.get_connection on entry: sqlite3.connect opens a connection;
\* the document store has one client, opened when first needed and reused
get_connection_enter(n) ==
    IF is_mongodb THEN (IF n = 0 THEN 1 ELSE n) ELSE n + 1

\* the exit of get_connection without its conn.close()
get_connection_exit_unclosed(n) == n

\* Database.get_connection on exit, returning or raising: "finally:
\* conn.close()" for sqlite; MongoDB.get_db closes nothing
get_connection_exit(n) == IF is_mongodb THEN n ELSE n - 1

\* the open connections after "with get_connection(): ..." from n open
with_connection(n) == get_connection_exit(get_connection_enter(n))

\* ----------------------------------------------------- employee service
\* A service method is a function of the store and its arguments: it gives
\* the outcome (res) and the store it leaves.
\* find_one({"id": ...}) / SELECT * FROM employees WHERE id = ? over a store
find_one_employee(emps, employee_id) ==
    First(emps, { r \in Range(emps) : r.id = employee_id })

get_by_id(employee_id) == find_one_employee(employees, employee_id)

get_by_email_none(email) == None

get_by_email(email) ==
    First(employees, { r \in Range(employees) : r.email = email })

employee_exists_true(employee_id) == TRUE

employee_exists(employee_id) == get_by_id(employee_id) # None

\* _doc_to_response: a missing (null) field of the document gets its default
doc_to_response(doc) ==
    [id |-> doc.id,
     name |-> IF doc.name = "NULL" THEN "Unknown" ELSE doc.name,
     email |-> IF doc.email = "NULL" THEN "unknown@example.com" ELSE doc.email,
     department |-> IF doc.department = "NULL" THEN "Unassigned"
                    ELSE doc.department,
     created_at |-> doc.created_at]

\* EmployeeResponse(**row): the five declared fields of the row
EmployeeResponse(row) ==
    [f \in {"id", "name", "email", "department", "created_at"} |-> row[f]]

\* get_employee without its not-found check: the defaults of an empty document
get_employee_from_defaults(emps, employee_id) ==
    IF find_one_employee(emps, employee_id) = None
    THEN [res |-> "OK",
          value |-> [id |-> employee_id, name |-> "Unknown",
                     email |-> "unknown@example.com",
                     department |-> "Unassigned", created_at |-> clock]]
    ELSE [res |-> "OK",
          value |-> IF is_mongodb
                    THEN doc_to_response(find_one_employee(emps, employee_id))
                    ELSE EmployeeResponse(find_one_employee(emps, employee_id))]

\* get_employee over a store: NotFound, or the response of the stored row
get_employee_from(emps, employee_id) ==
    IF find_one_employee(emps, employee_id) = None
    THEN [res |-> "NotFound", value |-> None]
    ELSE [res |-> "OK",
          value |-> IF is_mongodb
                    THEN doc_to_response(find_one_employee(emps, employee_id))
                    ELSE EmployeeResponse(find_one_employee(emps, employee_id))]

get_employee(employee_id) == get_employee_from(employees, employee_id)

\* the row create_employee persists: the request plus created_at
employee_row(employee) ==
    [id |-> employee.id, name |-> employee.name, email |-> employee.email,
     department |-> employee.department, created_at |-> clock + 1]

\* create_employee after its two checks: the insert and the response
insert_employee(employee) ==
    IF insert_accepts("employees", employee_row(employee))
    THEN [res |-> "OK",
          employees |-> Append(employees, employee_row(employee)),
          clock |-> clock + 1]
    ELSE [res |-> "IntegrityError", employees |-> employees, clock |-> clock]

create_employee(employee) ==
    IF get_by_id(employee.id) # None
    THEN [res |-> "Duplicate", employees |-> employees, clock |-> clock]
    ELSE IF get_by_email(employee.email) # None
    THEN [res |-> "Duplicate", employees |-> employees, clock |-> clock]
    ELSE insert_employee(employee)

\* update_data applied to a stored row: the supplied keys only
set_fields_nulling(row, update_data) ==
    [f \in DOMAIN row |->
        IF f \in DOMAIN update_data THEN update_data[f]
        ELSE IF f \in Fields THEN "NULL" ELSE row[f]]

\* the SET clause also stamping the row with the time of the update
set_fields_restamp(row, update_data) ==
    [f \in DOMAIN row |->
        IF f \in DOMAIN update_data THEN update_data[f]
        ELSE IF f = "created_at" THEN clock + 1 ELSE row[f]]

set_fields(row, update_data) ==
    [f \in DOMAIN row |->
        IF f \in DOMAIN update_data THEN update_data[f] ELSE row[f]]

\* the email of the update is owned by another employee
email_taken_never(employee_id, update_data) == FALSE

email_taken_any(employee_id, update_data) ==
    /\ "email" \in DOMAIN update_data
    /\ get_by_email(update_data["email"]) # None

email_taken(employee_id, update_data) ==
    /\ "email" \in DOMAIN update_data
    /\ get_by_email(update_data["email"]) # None
    /\ get_by_email(update_data["email"]).id # employee_id

RECURSIVE update_one_employee(_, _, _)
\* UPDATE ... WHERE id = ? / update_one({"id": ...}, {"$set": ...})
update_one_employee(rows, employee_id, update_data) ==
    IF rows = <<>> THEN <<>>
    ELSE IF Head(rows).id = employee_id
         THEN <<set_fields(Head(rows), update_data)>> \o Tail(rows)
         ELSE <<Head(rows)>>
              \o update_one_employee(Tail(rows), employee_id, update_data)

\* UNIQUE(email) as the UPDATE statement checks it
update_constraint(employee_id, update_data) ==
    "email" \in DOMAIN update_data =>
        \A r \in Range(employees) :
            r.email = update_data["email"] => r.id = employee_id

update_employee(employee_id, update_data) ==
    IF get_by_id(employee_id) = None
    THEN [res |-> "NotFound", employees |-> employees]
    ELSE IF email_taken(employee_id, update_data)
    THEN [res |-> "Duplicate", employees |-> employees]
    ELSE IF DOMAIN update_data = {}
    THEN [res |-> "OK", employees |-> employees]
    ELSE IF is_mongodb \/ update_constraint(employee_id, update_data)
    THEN [res |-> "OK",
          employees |-> update_one_employee(employees, employee_id, update_data)]
    ELSE [res |-> "IntegrityError", employees |-> employees]

\* DELETE FROM employees without its WHERE clause
delete_employee_all(employee_id) ==
    IF Count(employees, { r \in Range(employees) : r.id = employee_id }) = 0
    THEN [res |-> "NotFound", employees |-> employees,
          attendance |-> attendance]
    ELSE [res |-> "OK", employees |-> <<>>,
          attendance |-> on_delete_cascade(employee_id)]

delete_employee(employee_id) ==
    IF Count(employees, { r \in Range(employees) : r.id = employee_id }) = 0
    THEN [res |-> "NotFound", employees |-> employees,
          attendance |-> attendance]
    ELSE [res |-> "OK",
          employees |-> RemoveFirst(employees,
                           { r \in Range(employees) : r.id = employee_id }),
          attendance |-> on_delete_cascade(employee_id)]

\* ----------------------------------------------------------- the reads
\* MongoDB.find_many: collection.find(query, skip=0, limit=limit) with no
\* sort, so the documents come in the collection's natural order, which is
\* the order of insertion; matches is the set of documents the query takes
find_many(docs, matches, limit) ==
    LET found == Filter(docs, matches)
    IN SubSeq(found, 1, IF Len(found) < limit THEN Len(found) ELSE limit)

RECURSIVE order_by_desc(_, _)
\* SELECT ... ORDER BY <column> DESC: rows by falling rank of the column,
\* rows of equal rank in table order
order_by_desc(rows, rank) ==
    IF rows = <<>> THEN <<>>
    ELSE LET n == Len(rows)
             sorted == order_by_desc(SubSeq(rows, 1, n - 1), rank)
             ahead == Count(sorted, { r \in Range(sorted) : rank[r] >= rank[rows[n]] })
         IN SubSeq(sorted, 1, ahead) \o <<rows[n]>>
            \o SubSeq(sorted, ahead + 1, Len(sorted))

\* get_employees: every document as found / every row, newest first
get_employees ==
    IF is_mongodb
    THEN LET docs == find_many(employees, Range(employees), 1000)
         IN [k \in 1..Len(docs) |-> doc_to_response(docs[k])]
    ELSE LET rows == order_by_desc(employees,
                        [r \in Range(employees) |-> r.created_at])
         IN [k \in 1..Len(rows) |-> EmployeeResponse(rows[k])]

\* --------------------------------------------------- attendance service
\* the duplicate probe of create_attendance
find_attendance_other_date(employee_id, date) ==
    First(attendance, { r \in Range(attendance) :
                            r.employee_id = employee_id /\ r.date # date })

find_attendance_none(employee_id, date) == None

find_attendance(employee_id, date) ==
    First(attendance, { r \in Range(attendance) :
                            r.employee_id = employee_id /\ r.date = date })

attendance_row(a) ==
    [id |-> next_att_id, employee_id |-> a.employee_id,
     date |-> a.date, status |-> a.status]

\* AttendanceResponse(**row): id is declared str and the model does not
\* coerce numbers; a document carries its id as a string, a sqlite row as
\* an INTEGER, whose validation fails
attendance_response_valid == is_mongodb

\* AttendanceResponse(**data) of a stored record: the record with its id as
\* the string the document store hands out, or the validation failure on
\* the INTEGER id of a row
AttendanceResponse(row) ==
    IF attendance_response_valid
    THEN [res |-> "OK",
          value |-> [id |-> ToString(row.id), employee_id |-> row.employee_id,
                     date |-> row.date, status |-> row.status]]
    ELSE [res |-> "ValidationError", value |-> None]

\* create_attendance after its two checks: the insert and the response
insert_attendance(a) ==
    IF insert_accepts("attendance", attendance_row(a))
    THEN [res |-> AttendanceResponse(attendance_row(a)).res,
          value |-> AttendanceResponse(attendance_row(a)).value,
          attendance |-> Append(attendance, attendance_row(a)),
          next_att_id |-> next_att_id + 1]
    ELSE [res |-> "IntegrityError", value |-> None,
          attendance |-> attendance, next_att_id |-> next_att_id]

create_attendance(a) ==
    IF ~employee_exists(a.employee_id)
    THEN [res |-> "NotFound", value |-> None, attendance |-> attendance,
          next_att_id |-> next_att_id]
    ELSE IF find_attendance(a.employee_id, a.date) # None
    THEN [res |-> "Duplicate", value |-> None, attendance |-> attendance,
          next_att_id |-> next_att_id]
    ELSE insert_attendance(a)

\* ORDER BY date: ISO dates compare as text, later dates rank higher
date_rank(date) == IF date = "2024-01-01" THEN 1 ELSE 2

\* [AttendanceResponse(**r) for r in rows]: the list of responses, or the
\* first validation failure
attendance_responses(rows) ==
    IF \A k \in 1..Len(rows) : AttendanceResponse(rows[k]).res = "OK"
    THEN [res |-> "OK",
          value |-> [k \in 1..Len(rows) |-> AttendanceResponse(rows[k]).value]]
    ELSE [res |-> "ValidationError", value |-> <<>>]

\* filter_date when the caller gives none: "if filter_date" is false
no_filter == ""

\* get_attendance: the documents as found / the rows by date descending
get_attendance(filter_date) ==
    LET matches == IF filter_date = no_filter THEN Range(attendance)
                   ELSE { r \in Range(attendance) : r.date = filter_date }
    IN IF is_mongodb
       THEN attendance_responses(find_many(attendance, matches, 10000))
       ELSE attendance_responses(
                order_by_desc(Filter(attendance, matches),
                              [r \in matches |-> date_rank(r.date)]))

\* get_employee_attendance with the employee_id filter left out of the query
get_employee_attendance_all(employee_id) ==
    IF ~employee_exists(employee_id)
    THEN [res |-> "NotFound", value |-> <<>>]
    ELSE IF is_mongodb
    THEN attendance_responses(find_many(attendance, Range(attendance), 10000))
    ELSE attendance_responses(
             order_by_desc(attendance,
                           [r \in Range(attendance) |-> date_rank(r.date)]))

\* get_employee_attendance: NotFound, or the employee's records
get_employee_attendance(employee_id) ==
    LET matches == { r \in Range(attendance) : r.employee_id = employee_id }
    IN IF ~employee_exists(employee_id)
       THEN [res |-> "NotFound", value |-> <<>>]
       ELSE IF is_mongodb
       THEN attendance_responses(find_many(attendance, matches, 10000))
       ELSE attendance_responses(
                order_by_desc(Filter(attendance, matches),
                              [r \in matches |-> date_rank(r.date)]))

\* count_documents / SELECT COUNT(*) with the employee and status ignored
count_attendance_any_employee(employee_id, status) ==
    Count(attendance, { r \in Range(attendance) : r.status = status })

\* count_documents({employee_id, status}) / SELECT COUNT(*) ... WHERE
\* employee_id = ? AND status = ...
count_attendance(employee_id, status) ==
    Count(attendance, { r \in Range(attendance) :
                            r.employee_id = employee_id /\ r.status = status })

\* get_employee_attendance_summary: get_employee's NotFound, or the name it
\* returned and the two counts
get_employee_attendance_summary(employee_id) ==
    IF get_employee(employee_id).res # "OK"
    THEN [res |-> "NotFound", value |-> None]
    ELSE [res |-> "OK",
          value |-> [employee_id |-> employee_id,
                     name |-> get_employee(employee_id).value.name,
                     total_present |-> count_attendance(employee_id, "Present"),
                     total_absent |-> count_attendance(employee_id, "Absent")]]

RECURSIVE set_status(_, _, _)
\* UPDATE attendance SET status = ? WHERE id = ? / update_one($set status)
set_status(rows, attendance_id, status) ==
    IF rows = <<>> THEN <<>>
    ELSE IF Head(rows).id = attendance_id
         THEN <<[Head(rows) EXCEPT !.status = status]>> \o Tail(rows)
         ELSE <<Head(rows)>> \o set_status(Tail(rows), attendance_id, status)

\* query_id = {"_id": doc["_id"]} of update_attendance against a stored
\* document: find_one has converted the ObjectId of doc to a string, and no
\* stored _id, an ObjectId, equals a string
query_id_matches(row, doc) == FALSE

\* the document-store branch of update_attendance once doc is found:
\* update_one(query_id, $set status), find_one(query_id), the response
update_attendance_mongodb(doc, status) ==
    LET matched == { r \in Range(attendance) : query_id_matches(r, doc) }
        written == IF matched = {} THEN attendance
                   ELSE set_status(attendance, First(attendance, matched).id,
                                   status)
        updated == First(written, { r \in Range(written) :
                                        query_id_matches(r, doc) })
    IN IF updated = None
       THEN [res |-> "TypeError", value |-> None, attendance |-> written]
       ELSE [res |-> AttendanceResponse(updated).res,
             value |-> AttendanceResponse(updated).value,
             attendance |-> written]

\* the relational branch once the UPDATE has matched a row: commit, SELECT,
\* the response
update_attendance_sqlite(attendance_id, status) ==
    LET written == set_status(attendance, attendance_id, status)
        row == First(written, { r \in Range(written) : r.id = attendance_id })
    IN [res |-> AttendanceResponse(row).res,
        value |-> AttendanceResponse(row).value,
        attendance |-> written]

update_attendance(attendance_id, status) ==
    LET found == { r \in Range(attendance) : r.id = attendance_id }
    IN IF found = {}
       THEN [res |-> "NotFound", value |-> None, attendance |-> attendance]
       ELSE IF is_mongodb
       THEN update_attendance_mongodb(First(attendance, found), status)
       ELSE update_attendance_sqlite(attendance_id, status)

\* DELETE keyed on the employee of the record instead of its id
delete_attendance_of_employee(attendance_id) ==
    LET found == { r \in Range(attendance) : r.id = attendance_id }
    IN IF found = {}
       THEN [res |-> "NotFound", attendance |-> attendance]
       ELSE [res |-> "OK",
             attendance |-> Filter(attendance,
                               { r \in Range(attendance) :
                                   r.employee_id
                                     # First(attendance, found).employee_id })]

delete_attendance(attendance_id) ==
    IF Count(attendance, { r \in Range(attendance) : r.id = attendance_id }) = 0
    THEN [res |-> "NotFound", attendance |-> attendance]
    ELSE [res |-> "OK",
          attendance |-> RemoveFirst(attendance,
                            { r \in Range(attendance) : r.id = attendance_id })]

\* ------------------------------------------------------- store failures
\* A store call of a method may fail (connection lost, server error):
\* failing is the set of the method's store calls, counted from 1, that
\* fail; a failed call changes nothing.  calls is the number of store calls
\* the method has made when it ends.
Attempts == {1, 2}

\* delete_attendance with failing store calls.  Document store: delete_one
\* by ObjectId inside "try ... except Exception: pass", then, when that
\* reported nothing deleted, delete_one by the "id" field, which no stored
\* document has.  Relational: the one DELETE statement.
delete_attendance_faulty(attendance_id, failing) ==
    LET found == { r \in Range(attendance) : r.id = attendance_id }
    IN IF is_mongodb
       THEN IF 1 \notin failing /\ found # {}
            THEN [res |-> "OK", calls |-> 1,
                  attendance |-> RemoveFirst(attendance, found)]
            ELSE IF 2 \in failing
            THEN [res |-> "StoreError", calls |-> 2, attendance |-> attendance]
            ELSE [res |-> "NotFound", calls |-> 2, attendance |-> attendance]
       ELSE IF 1 \in failing
            THEN [res |-> "StoreError", calls |-> 1, attendance |-> attendance]
            ELSE IF found = {}
            THEN [res |-> "NotFound", calls |-> 1, attendance |-> attendance]
            ELSE [res |-> "OK", calls |-> 1,
                  attendance |-> RemoveFirst(attendance, found)]

\* the lookup of update_attendance with failing store calls.  Document
\* store: find_one by ObjectId inside "try ... except Exception: doc =
\* None", then, when doc is empty, find_one by the "id" field.  Relational:
\* the UPDATE statement itself finds the row.
update_attendance_lookup(attendance_id, failing) ==
    LET found == { r \in Range(attendance) : r.id = attendance_id }
    IN IF is_mongodb
       THEN IF 1 \notin failing /\ found # {}
            THEN [res |-> "OK", calls |-> 1]
            ELSE IF 2 \in failing
            THEN [res |-> "StoreError", calls |-> 2]
            ELSE [res |-> "NotFound", calls |-> 2]
       ELSE IF 1 \in failing
            THEN [res |-> "StoreError", calls |-> 1]
            ELSE IF found = {}
            THEN [res |-> "NotFound", calls |-> 1]
            ELSE [res |-> "OK", calls |-> 1]

\* ------------------------------------------------ the Database adapter
\* Database.get_mongo_client in a mode: the client, or RuntimeError
\* ("MongoDB is not configured") when the mode is not mongodb
get_mongo_client(mode) == IF mode = "mongodb" THEN "OK" ELSE "RuntimeError"

\* The six verbs of Database over a collection docs: each is
\* self.get_mongo_client().<verb>(...), so each raises what
\* get_mongo_client raises; matches is the set of documents the query takes.
db_insert_one(mode, docs, document) ==
    IF get_mongo_client(mode) # "OK"
    THEN [res |-> get_mongo_client(mode), value |-> None, docs |-> docs]
    ELSE [res |-> "OK", value |-> Len(docs) + 1,
          docs |-> Append(docs, document)]

db_find_one(mode, docs, matches) ==
    IF get_mongo_client(mode) # "OK"
    THEN [res |-> get_mongo_client(mode), value |-> None, docs |-> docs]
    ELSE [res |-> "OK", value |-> First(docs, matches), docs |-> docs]

db_find_many(mode, docs, matches, limit) ==
    IF get_mongo_client(mode) # "OK"
    THEN [res |-> get_mongo_client(mode), value |-> None, docs |-> docs]
    ELSE [res |-> "OK", value |-> find_many(docs, matches, limit),
          docs |-> docs]

db_update_one(mode, docs, matches, update_data) ==
    IF get_mongo_client(mode) # "OK"
    THEN [res |-> get_mongo_client(mode), value |-> None, docs |-> docs]
    ELSE IF Count(docs, matches) = 0
    THEN [res |-> "OK", value |-> FALSE, docs |-> docs]
    ELSE LET k == CHOOSE j \in 1..Len(docs) :
                      /\ docs[j] \in matches
                      /\ \A h \in 1..(j - 1) : docs[h] \notin matches
             written == [docs EXCEPT ![k] = set_fields(docs[k], update_data)]
         IN [res |-> "OK", value |-> written # docs, docs |-> written]

db_delete_one(mode, docs, matches) ==
    IF get_mongo_client(mode) # "OK"
    THEN [res |-> get_mongo_client(mode), value |-> None, docs |-> docs]
    ELSE [res |-> "OK", value |-> Count(docs, matches) > 0,
          docs |-> RemoveFirst(docs, matches)]

db_count_documents(mode, docs, matches) ==
    IF get_mongo_client(mode) # "OK"
    THEN [res |-> get_mongo_client(mode), value |-> None, docs |-> docs]
    ELSE [res |-> "OK", value |-> Count(docs, matches), docs |-> docs]

\* ---------------------------------------------------- request validation
\* status tokens a client may send
RawStatuses == {"present", "Present", "absent", "Absent", "Maybe"}

\* str.capitalize(): first letter upper case, the rest lower case
capitalize(v) ==
    IF v = "present" THEN "Present"
    ELSE IF v = "absent" THEN "Absent"
    ELSE v

\* AttendanceBase.validate_status: capitalize, then Present or Absent only;
\* no request schema derives from AttendanceBase
validate_status(v) ==
    IF capitalize(v) \in {"Present", "Absent"}
    THEN [res |-> "OK", value |-> capitalize(v)]
    ELSE [res |-> "RequestValidationError", value |-> None]

\* Field(..., pattern=r"^(Present|Absent)$") of AttendanceCreate and
\* AttendanceUpdate: the value as sent, matched case-sensitively
status_field(v) ==
    IF v \in {"Present", "Absent"}
    THEN [res |-> "OK", value |-> v]
    ELSE [res |-> "RequestValidationError", value |-> None]

\* a create request as the endpoint takes it: AttendanceCreate(**body),
\* then the service
request_create_attendance(employee_id, date, raw_status) ==
    IF status_field(raw_status).res # "OK"
    THEN [res |-> "RequestValidationError", value |-> None,
          attendance |-> attendance, next_att_id |-> next_att_id]
    ELSE create_attendance([employee_id |-> employee_id, date |-> date,
                            status |-> status_field(raw_status).value])

\* an update request: AttendanceUpdate(**body), then the service
request_update_attendance(attendance_id, raw_status) ==
    IF status_field(raw_status).res # "OK"
    THEN [res |-> "RequestValidationError", value |-> None,
          attendance |-> attendance]
    ELSE update_attendance(attendance_id, status_field(raw_status).value)

\* the employee total taken from the attendance records instead of the
\* employees table
dashboard_summary_marked(emps, atts) ==
    [total_employees |-> Cardinality({ r.employee_id : r \in Range(atts) }),
     total_present |-> Count(atts, { r \in Range(atts) : r.status = "Present" }),
     total_absent |-> Count(atts, { r \in Range(atts) : r.status = "Absent" })]

\* get_dashboard_summary over a store: three counts
dashboard_summary(emps, atts) ==
    [total_employees |-> Len(emps),
     total_present |-> Count(atts, { r \in Range(atts) : r.status = "Present" }),
     total_absent |-> Count(atts, { r \in Range(atts) : r.status = "Absent" })]

get_dashboard_summary == dashboard_summary(employees, attendance)

\* ------------------------------------------- sequential specification
\* One action per service method: the store becomes what the method leaves
\* and last records the outcome.
Init ==
    /\ db_type \in Backends
    /\ employees = <<>>
    /\ attendance = <<>>
    /\ clock = 0
    /\ next_att_id = 1
    /\ last = [op |-> "none", res |-> "none"]
    /\ pc = [p \in Procs |-> Idle]
    /\ connections = 0

Done(op, res) == last' = [op |-> op, res |-> res]

\* every method goes to the store inside "with get_connection()" (or
\* through a verb of the client): what that leaves of the connections
Connection == connections' = with_connection(connections)

CreateEmployee(requests) ==
    \E e \in requests :
        LET c == create_employee(e) IN
        /\ c.clock <= MaxClock
        /\ employees' = c.employees
        /\ clock' = c.clock
        /\ Done("create_employee", c.res)
        /\ UNCHANGED <<db_type, attendance, next_att_id, pc>>
        /\ Connection

UpdateEmployee(requests) ==
    \E i \in Ids, u \in requests :
        LET c == update_employee(i, u) IN
        /\ employees' = c.employees
        /\ Done("update_employee", c.res)
        /\ UNCHANGED <<db_type, attendance, clock, next_att_id, pc>>
        /\ Connection

DeleteEmployee ==
    \E i \in Ids :
        LET c == delete_employee(i) IN
        /\ employees' = c.employees
        /\ attendance' = c.attendance
        /\ Done("delete_employee", c.res)
        /\ UNCHANGED <<db_type, clock, next_att_id, pc>>
        /\ Connection

CreateAttendance ==
    \E a \in AttendanceCreate :
        LET c == create_attendance(a) IN
        /\ c.next_att_id <= MaxAttId + 1
        /\ attendance' = c.attendance
        /\ next_att_id' = c.next_att_id
        /\ Done("create_attendance", c.res)
        /\ UNCHANGED <<db_type, employees, clock, pc>>
        /\ Connection

UpdateAttendance ==
    \E i \in AttIds, st \in Statuses :
        LET c == update_attendance(i, st) IN
        /\ attendance' = c.attendance
        /\ Done("update_attendance", c.res)
        /\ UNCHANGED <<db_type, employees, clock, next_att_id, pc>>
        /\ Connection

DeleteAttendance ==
    \E i \in AttIds :
        LET c == delete_attendance(i) IN
        /\ attendance' = c.attendance
        /\ Done("delete_attendance", c.res)
        /\ UNCHANGED <<db_type, employees, clock, next_att_id, pc>>
        /\ Connection

\* the two reads of one employee: they leave every variable but last
GetEmployee ==
    \E i \in Ids :
        /\ Done("get_employee", get_employee(i).res)
        /\ UNCHANGED <<db_type, employees, attendance, clock, next_att_id, pc>>
        /\ Connection

EmployeeExists ==
    \E i \in Ids :
        /\ Done("employee_exists", IF employee_exists(i) THEN "True" ELSE "False")
        /\ UNCHANGED <<db_type, employees, attendance, clock, next_att_id, pc>>
        /\ Connection

\* The employee service alone, over every request.
NextEmployees ==
    \/ CreateEmployee(EmployeeCreate)
    \/ UpdateEmployee(EmployeeUpdate)
    \/ DeleteEmployee
    \/ GetEmployee
    \/ EmployeeExists

SpecEmployees == Init /\ [][NextEmployees]_vars

\* Both services.  Attendance never reads an employee's name or
\* department, so here the employee requests vary the id and email only.
StaffCreate == { e \in EmployeeCreate : e.name = "Ann" /\ e.department = "HR" }
StaffUpdate == { u \in EmployeeUpdate : DOMAIN u \subseteq {"email"} }

Next ==
    \/ CreateEmployee(StaffCreate)
    \/ UpdateEmployee(StaffUpdate)
    \/ DeleteEmployee
    \/ CreateAttendance
    \/ UpdateAttendance
    \/ DeleteAttendance

Spec == Init /\ [][Next]_vars

\* Both services with the names in play: every employee is created as Ann
\* with the email of its id, and only an update renames it.
SummaryCreate ==
    { e \in StaffCreate :
        e.email = IF e.id = "E001" THEN "a@x.com" ELSE "b@x.com" }
NameUpdate == { u \in EmployeeUpdate : DOMAIN u = {"name"} }

NextSummary ==
    \/ CreateEmployee(SummaryCreate)
    \/ UpdateEmployee(NameUpdate)
    \/ DeleteEmployee
    \/ CreateAttendance
    \/ UpdateAttendance
    \/ DeleteAttendance

SpecSummary == Init /\ [][NextSummary]_vars

\* ------------------------------------------- concurrent specification
\* Two request handlers run create_employee / create_attendance one store
\* round trip at a time; delete_employee is a single statement.

\* the requests the concurrent handlers are given
ConcAttendanceCreate ==
    { a \in AttendanceCreate : a.date = "2024-01-01" /\ a.status = "Present" }

At(p, at) == pc[p].at = at
Goto(p, at, req) == pc' = [pc EXCEPT ![p] = [at |-> at, req |-> req]]
Return(p) == pc' = [pc EXCEPT ![p] = Idle]

\* create_employee, first query: _get_by_id
EmpCheckId(p) ==
    /\ At(p, "idle")
    /\ \E e \in StaffCreate :
          IF get_by_id(e.id) # None
          THEN Done("create_employee", "Duplicate") /\ UNCHANGED pc
          ELSE Goto(p, "emp_email", e) /\ UNCHANGED last
    /\ UNCHANGED <<db_type, employees, attendance, clock, next_att_id>>
    /\ Connection

\* create_employee, second query: _get_by_email
EmpCheckEmail(p) ==
    /\ At(p, "emp_email")
    /\ IF get_by_email(pc[p].req.email) # None
       THEN Done("create_employee", "Duplicate") /\ Return(p)
       ELSE Goto(p, "emp_insert", pc[p].req) /\ UNCHANGED last
    /\ UNCHANGED <<db_type, employees, attendance, clock, next_att_id>>
    /\ Connection

\* create_employee, the insert
EmpInsert(p) ==
    /\ At(p, "emp_insert")
    /\ LET c == insert_employee(pc[p].req) IN
       /\ c.clock <= MaxClock
       /\ employees' = c.employees
       /\ clock' = c.clock
       /\ Done("create_employee", c.res)
    /\ Return(p)
    /\ UNCHANGED <<db_type, attendance, next_att_id>>
    /\ Connection

\* create_attendance, first query: employee_exists
AttCheckEmployee(p) ==
    /\ At(p, "idle")
    /\ \E a \in ConcAttendanceCreate :
          IF ~employee_exists(a.employee_id)
          THEN Done("create_attendance", "NotFound") /\ UNCHANGED pc
          ELSE Goto(p, "att_dup", a) /\ UNCHANGED last
    /\ UNCHANGED <<db_type, employees, attendance, clock, next_att_id>>
    /\ Connection

\* create_attendance, second query: the duplicate probe
AttCheckDup(p) ==
    /\ At(p, "att_dup")
    /\ IF find_attendance(pc[p].req.employee_id, pc[p].req.date) # None
       THEN Done("create_attendance", "Duplicate") /\ Return(p)
       ELSE Goto(p, "att_insert", pc[p].req) /\ UNCHANGED last
    /\ UNCHANGED <<db_type, employees, attendance, clock, next_att_id>>
    /\ Connection

\* create_attendance, the insert and the response
AttInsert(p) ==
    /\ At(p, "att_insert")
    /\ LET c == insert_attendance(pc[p].req) IN
       /\ c.next_att_id <= MaxAttId + 1
       /\ attendance' = c.attendance
       /\ next_att_id' = c.next_att_id
       /\ Done("create_attendance", c.res)
    /\ Return(p)
    /\ UNCHANGED <<db_type, employees, clock>>
    /\ Connection

NextConc ==
    \/ \E p \in Procs : EmpCheckId(p)
    \/ \E p \in Procs : EmpCheckEmail(p)
    \/ \E p \in Procs : EmpInsert(p)
    \/ \E p \in Procs : AttCheckEmployee(p)
    \/ \E p \in Procs : AttCheckDup(p)
    \/ \E p \in Procs : AttInsert(p)
    \/ DeleteEmployee

SpecConc == Init /\ [][NextConc]_vars

\* ============================================================== claims
Stored(employee_id) == \E r \in Range(employees) : r.id = employee_id
EmailStored(email) == \E r \in Range(employees) : r.email = email
Recorded(employee_id, date) ==
    \E r \in Range(attendance) : r.employee_id = employee_id /\ r.date = date
Called(op, res) == last = [op |-> op, res |-> res]

\* C1: after any sequence of service calls the store holds at most one
\* attendance record for each (employee_id, date) pair.
C1_AttendanceUnique ==
    \A i, j \in DOMAIN attendance :
        i # j => ~(/\ attendance[i].employee_id = attendance[j].employee_id
                   /\ attendance[i].date = attendance[j].date)

C1_Witness ==
    /\ Called("create_attendance", "Duplicate")
    /\ Len(attendance) = 2
    /\ attendance[1].employee_id = attendance[2].employee_id

\* C2 as stated: an attendance create for a pair that already has a record
\* fails with Duplicate and leaves the attendance records as they were.
C2_Original ==
    \A a \in AttendanceCreate :
        Recorded(a.employee_id, a.date)
        => /\ create_attendance(a).res = "Duplicate"
           /\ create_attendance(a).attendance = attendance

\* C2 amended: for a pair that already has a record the create leaves the
\* records as they were; it fails with Duplicate when the employee is
\* stored and with NotFound when it is not (its records outlive it).
C2_DuplicateOrNotFound ==
    \A a \in AttendanceCreate :
        Recorded(a.employee_id, a.date)
        => /\ create_attendance(a).attendance = attendance
           /\ create_attendance(a).res =
                 IF Stored(a.employee_id) THEN "Duplicate" ELSE "NotFound"

C2_Witness ==
    /\ Called("create_attendance", "Duplicate")
    /\ \E r \in Range(attendance) : Stored(r.employee_id)
    /\ \E r \in Range(attendance) : ~Stored(r.employee_id)

\* C3: an attendance create for an employee id that is not stored fails
\* with NotFound whatever the date and status, and inserts nothing.
C3_UnknownEmployeeNotFound ==
    \A a \in AttendanceCreate :
        ~Stored(a.employee_id)
        => /\ create_attendance(a).res = "NotFound"
           /\ create_attendance(a).attendance = attendance

C3_Witness ==
    /\ Called("create_attendance", "NotFound")
    /\ employees # <<>>
    /\ attendance # <<>>

\* C4: an employee create succeeds when neither its id nor its email is
\* stored; when either is stored it fails with Duplicate and the stored
\* employees are unchanged.
C4_CreateOnceThenDuplicate ==
    \A e \in EmployeeCreate :
        LET c == create_employee(e) IN
        IF Stored(e.id) \/ EmailStored(e.email)
        THEN c.res = "Duplicate" /\ c.employees = employees
        ELSE /\ c.res = "OK"
             /\ Len(c.employees) = Len(employees) + 1
             /\ SubSeq(c.employees, 1, Len(employees)) = employees
             /\ LET r == c.employees[Len(c.employees)] IN
                   /\ r.id = e.id /\ r.name = e.name
                   /\ r.email = e.email /\ r.department = e.department

C4_Witness ==
    /\ Called("create_employee", "Duplicate")
    /\ Len(employees) = 1

\* C5: after any sequence of employee calls no two stored employees have
\* the same id and no two have the same email.
C5_EmployeeUnique ==
    \A i, j \in DOMAIN employees :
        i # j => (/\ employees[i].id # employees[j].id
                  /\ employees[i].email # employees[j].email)

C5_Witness ==
    /\ Called("update_employee", "Duplicate")
    /\ Len(employees) = 2

\* C6 as stated: in the relational backend a successful employee delete
\* leaves no attendance row of that employee.
C6_Cascade ==
    db_type = "sqlite"
    => \A i \in Ids :
          delete_employee(i).res = "OK"
          => \A r \in Range(delete_employee(i).attendance) : r.employee_id # i

\* C7: in the document backend an employee delete leaves every attendance
\* record, and so the dashboard Present/Absent totals, as they were.
C7_MongoDeleteKeepsAttendance ==
    is_mongodb
    => \A i \in Ids :
          LET c == delete_employee(i)
              d == dashboard_summary(c.employees, c.attendance)
          IN /\ c.attendance = attendance
             /\ d.total_present = get_dashboard_summary.total_present
             /\ d.total_absent = get_dashboard_summary.total_absent

C7_Witness ==
    /\ is_mongodb
    /\ Called("delete_employee", "OK")
    /\ \E r \in Range(attendance) : ~Stored(r.employee_id)

\* C8: in the document backend a handler that has passed its uniqueness
\* check always inserts, whatever was inserted in between, so two
\* concurrent creates with one key leave two records with that key.
C8_MongoInsertAfterCheck ==
    is_mongodb
    => \A p \in Procs :
          /\ At(p, "emp_insert")
                => insert_employee(pc[p].req).employees
                      = Append(employees, employee_row(pc[p].req))
          /\ At(p, "att_insert")
                => insert_attendance(pc[p].req).attendance
                      = Append(attendance, attendance_row(pc[p].req))

C8_Witness ==
    /\ is_mongodb
    /\ \E i, j \in DOMAIN employees :
          i # j /\ employees[i].id = employees[j].id
    /\ \E i, j \in DOMAIN employees :
          i # j /\ employees[i].email = employees[j].email
    /\ \E i, j \in DOMAIN attendance :
          /\ i # j
          /\ attendance[i].employee_id = attendance[j].employee_id
          /\ attendance[i].date = attendance[j].date

\* C9: an employee update changes only the supplied fields of the employee
\* with that id: unsupplied fields keep their values, an empty update
\* changes nothing, and every other employee is unchanged.
C9_PartialUpdate ==
    \A i \in Ids, u \in EmployeeUpdate :
        LET c == update_employee(i, u) IN
        /\ Len(c.employees) = Len(employees)
        /\ DOMAIN u = {} => c.employees = employees
        /\ \A k \in DOMAIN employees :
              /\ employees[k].id # i => c.employees[k] = employees[k]
              /\ \A f \in Fields \ DOMAIN u :
                    c.employees[k][f] = employees[k][f]
              /\ (employees[k].id = i /\ c.res = "OK")
                    => \A f \in DOMAIN u : c.employees[k][f] = u[f]

C9_Witness ==
    /\ Called("update_employee", "OK")
    /\ Len(employees) = 2
    /\ employees[1].department # employees[2].department
    /\ employees[1].name # employees[2].name

\* C10: an employee update fails with NotFound when the id is not stored,
\* with Duplicate exactly when the supplied email belongs to another stored
\* employee (the employee's own email is accepted), and changes nothing in
\* either failure.
C10_UpdateErrors ==
    \A i \in Ids, u \in EmployeeUpdate :
        LET c == update_employee(i, u)
            owned == /\ "email" \in DOMAIN u
                     /\ \E r \in Range(employees) :
                           r.email = u["email"] /\ r.id # i
        IN /\ ~Stored(i) => (c.res = "NotFound" /\ c.employees = employees)
           /\ Stored(i) => /\ (c.res = "Duplicate") <=> owned
                           /\ owned => c.employees = employees
                           /\ ~owned => c.res = "OK"

C10_Witness ==
    /\ Called("update_employee", "Duplicate")
    /\ Len(employees) = 2
    /\ employees[1].created_at = 1
    /\ employees[1].email = "b@x.com"

\* C11: an employee delete fails with NotFound and changes nothing when the
\* id is not stored; when the id is stored it removes exactly that employee
\* and leaves every other employee as it was, and in the store it leaves
\* get(id) fails with NotFound and exists(id) is false.
C11_DeleteEmployee ==
    \A i \in Ids :
        LET c == delete_employee(i) IN
        /\ ~Stored(i) => /\ c.res = "NotFound"
                         /\ c.employees = employees
                         /\ c.attendance = attendance
        /\ Stored(i) =>
              /\ c.res = "OK"
              /\ c.employees
                   = Filter(employees, { r \in Range(employees) : r.id # i })
              /\ Len(c.employees) = Len(employees) - 1
              /\ get_employee_from(c.employees, i).res = "NotFound"
              /\ find_one_employee(c.employees, i) = None

C11_Witness ==
    /\ Called("delete_employee", "OK")
    /\ Len(employees) = 1
    /\ clock = 2
    /\ get_employee(employees[1].id).res = "OK"

\* C12: for an id with no stored employee (any id on an empty store
\* included) get fails with NotFound and exists returns false; for a stored
\* id get returns the stored fields of that employee and exists returns
\* true; neither read changes the store.
C12_ReadResults ==
    \A i \in Ids :
        /\ ~Stored(i) => /\ get_employee(i).res = "NotFound"
                         /\ employee_exists(i) = FALSE
        /\ Stored(i) =>
              /\ get_employee(i).res = "OK"
              /\ employee_exists(i) = TRUE
              /\ \E k \in 1..Len(employees) :
                    /\ employees[k].id = i
                    /\ \A f \in DOMAIN employees[k] :
                          get_employee(i).value[f] = employees[k][f]

C12_GetAndExists ==
    /\ []C12_ReadResults
    /\ [][last'.op \in {"get_employee", "employee_exists"}
            => UNCHANGED <<employees, attendance, clock, next_att_id>>]_vars

C12_Witness ==
    /\ Called("employee_exists", "False")
    /\ Len(employees) = 1
    /\ get_employee(employees[1].id).value.name = "Bob"
    /\ get_employee(employees[1].id).value.created_at = 2

\* C13: the employee list holds every stored employee exactly once and is
\* ordered by creation time descending (an employee created later comes
\* before one created earlier), in both backends.
C13_ListNewestFirst ==
    LET l == get_employees IN
    /\ Len(l) = Len(employees)
    /\ \A r \in Range(employees) :
          Cardinality({ k \in 1..Len(l) : l[k].id = r.id }) = 1
    /\ \A j, k \in 1..Len(l) : j < k => l[j].created_at > l[k].created_at

\* C14: the id and created_at of an employee are fixed at creation: an
\* update, whatever fields it supplies and whatever its outcome, leaves the
\* stored id and created_at of every employee as they were, and a get after
\* it returns the same created_at.
C14_IdAndCreatedAtFixed ==
    \A i \in Ids, u \in EmployeeUpdate :
        LET c == update_employee(i, u) IN
        /\ Len(c.employees) = Len(employees)
        /\ \A k \in 1..Len(employees) :
              /\ c.employees[k].id = employees[k].id
              /\ c.employees[k].created_at = employees[k].created_at
        /\ Stored(i) =>
              /\ get_employee_from(c.employees, i).value.id = i
              /\ get_employee_from(c.employees, i).value.created_at
                   = get_employee(i).value.created_at

C14_Witness ==
    /\ Called("update_employee", "OK")
    /\ Len(employees) = 1
    /\ clock = 2
    /\ employees[1].created_at = 1

\* C15: when the employee is stored and no record exists for
\* (employee_id, date), an attendance create persists exactly one new
\* record and returns it with the supplied employee_id, date and status
\* and the id the backend assigned, as a string, in both backends.
C15_CreateReturnsRecord ==
    \A a \in AttendanceCreate :
        (Stored(a.employee_id) /\ ~Recorded(a.employee_id, a.date)) =>
            LET c == create_attendance(a) IN
            /\ c.res = "OK"
            /\ Len(c.attendance) = Len(attendance) + 1
            /\ SubSeq(c.attendance, 1, Len(attendance)) = attendance
            /\ c.value = [id |-> ToString(c.attendance[Len(c.attendance)].id),
                          employee_id |-> a.employee_id,
                          date |-> a.date, status |-> a.status]

\* C16: the attendance list without a filter returns every stored record,
\* with a date filter exactly the records of that date, and in both cases
\* the result is ordered by date descending, in both backends.
C16_ListByDateDescending ==
    \A f \in Dates \cup {no_filter} :
        LET c == get_attendance(f)
            wanted == { r \in Range(attendance) : f = no_filter \/ r.date = f }
        IN /\ c.res = "OK"
           /\ Len(c.value) = Cardinality(wanted)
           /\ \A r \in wanted :
                 \E k \in 1..Len(c.value) : c.value[k] = AttendanceResponse(r).value
           /\ \A j, k \in 1..Len(c.value) :
                 j < k => date_rank(c.value[j].date) >= date_rank(c.value[k].date)

\* C17: the attendance list of an employee fails with NotFound when the
\* employee is not stored; otherwise it returns exactly the stored records
\* whose employee_id is the argument, ordered by date descending, in both
\* backends.
C17_ListForEmployee ==
    \A i \in Ids :
        LET c == get_employee_attendance(i)
            wanted == { r \in Range(attendance) : r.employee_id = i }
        IN /\ ~Stored(i) => c.res = "NotFound"
           /\ Stored(i) =>
                 /\ c.res = "OK"
                 /\ Len(c.value) = Cardinality(wanted)
                 /\ \A r \in wanted :
                       \E k \in 1..Len(c.value) :
                           c.value[k] = AttendanceResponse(r).value
                 /\ \A j, k \in 1..Len(c.value) :
                       j < k => date_rank(c.value[j].date)
                                    > date_rank(c.value[k].date)

\* C18: the summary of an employee fails with NotFound when the employee is
\* not stored; otherwise total_present and total_absent are the numbers of
\* stored attendance records of that employee with status Present and
\* Absent, and name is the employee's current stored name.
C18_Summary ==
    \A i \in Ids :
        LET c == get_employee_attendance_summary(i) IN
        /\ ~Stored(i) => c.res = "NotFound"
        /\ Stored(i) =>
              /\ c.res = "OK"
              /\ c.value.employee_id = i
              /\ c.value.total_present
                   = Cardinality({ k \in 1..Len(attendance) :
                        /\ attendance[k].employee_id = i
                        /\ attendance[k].status = "Present" })
              /\ c.value.total_absent
                   = Cardinality({ k \in 1..Len(attendance) :
                        /\ attendance[k].employee_id = i
                        /\ attendance[k].status = "Absent" })
              /\ \E r \in Range(employees) : r.id = i /\ r.name = c.value.name

C18_Witness ==
    /\ Called("create_attendance", "OK")
    /\ Len(attendance) = 2
    /\ attendance[1].employee_id # attendance[2].employee_id
    /\ get_employee_attendance_summary("E001").value
         = [employee_id |-> "E001", name |-> "Bob",
            total_present |-> 0, total_absent |-> 1]
    /\ get_employee_attendance_summary("E002").value.total_present = 1

\* C19: an attendance update fails with NotFound and changes nothing when
\* no record has the id; otherwise it sets the status of that record to the
\* supplied value, returns the updated record, and leaves that record's id,
\* employee_id and date and every other record unchanged.
C19_UpdateAttendance ==
    \A i \in AttIds, st \in Statuses :
        LET c == update_attendance(i, st) IN
        IF \A r \in Range(attendance) : r.id # i
        THEN c.res = "NotFound" /\ c.attendance = attendance
        ELSE /\ c.res = "OK"
             /\ Len(c.attendance) = Len(attendance)
             /\ \A k \in 1..Len(attendance) :
                   c.attendance[k]
                     = IF attendance[k].id = i
                       THEN [attendance[k] EXCEPT !.status = st]
                       ELSE attendance[k]
             /\ \E r \in Range(attendance) :
                   /\ r.id = i
                   /\ c.value = [id |-> ToString(i),
                                 employee_id |-> r.employee_id,
                                 date |-> r.date, status |-> st]

\* C20: an attendance delete fails with NotFound and changes nothing when
\* no record has the id; otherwise it removes exactly the record with that
\* id and leaves every other attendance record as it was; a delete step
\* leaves every employee unchanged.
C20_DeleteResult ==
    \A i \in AttIds :
        LET c == delete_attendance(i) IN
        IF \A r \in Range(attendance) : r.id # i
        THEN c.res = "NotFound" /\ c.attendance = attendance
        ELSE /\ c.res = "OK"
             /\ Len(c.attendance) = Len(attendance) - 1
             /\ c.attendance
                  = Filter(attendance, { r \in Range(attendance) : r.id # i })

C20_DeleteAttendance ==
    /\ []C20_DeleteResult
    /\ [][last'.op = "delete_attendance"
            => /\ employees' = employees
               /\ \/ last'.res = "OK" /\ Len(attendance') = Len(attendance) - 1
                  \/ last'.res = "NotFound" /\ attendance' = attendance]_vars

C20_Witness ==
    /\ Called("delete_attendance", "OK")
    /\ Len(attendance) = 1
    /\ attendance[1].id = 2
    /\ Stored(attendance[1].employee_id)

\* C21: in every reachable state the dashboard summary gives the number of
\* stored employees and the numbers of stored attendance records with
\* status Present and Absent, over all employees.
C21_Dashboard ==
    /\ get_dashboard_summary.total_employees
         = Cardinality({ k \in 1..Len(employees) : TRUE })
    /\ get_dashboard_summary.total_present
         = Cardinality({ k \in 1..Len(attendance) :
                            attendance[k].status = "Present" })
    /\ get_dashboard_summary.total_absent
         = Cardinality({ k \in 1..Len(attendance) :
                            attendance[k].status = "Absent" })

C21_Witness ==
    /\ Called("delete_employee", "OK")
    /\ get_dashboard_summary
         = [total_employees |-> 1, total_present |-> 1, total_absent |-> 1]
    /\ \A r \in Range(attendance) : ~Stored(r.employee_id)

\* C22: the status of a create or update request is case-normalized before
\* it is stored: "present" is accepted and stored as "Present" ("absent" as
\* "Absent"), and any other token such as "Maybe" is rejected at validation
\* and never reaches the store.
C22_StatusNormalized ==
    \A raw \in RawStatuses :
        /\ \A i \in Ids, d \in Dates :
              (Stored(i) /\ ~Recorded(i, d)) =>
                  LET c == request_create_attendance(i, d, raw) IN
                  IF validate_status(raw).res = "OK"
                  THEN /\ Len(c.attendance) = Len(attendance) + 1
                       /\ c.attendance[Len(c.attendance)].status
                            = validate_status(raw).value
                  ELSE /\ c.res = "RequestValidationError"
                       /\ c.attendance = attendance
        /\ validate_status(raw).res # "OK" =>
              \A n \in AttIds :
                  /\ request_update_attendance(n, raw).res
                       = "RequestValidationError"
                  /\ request_update_attendance(n, raw).attendance = attendance

\* C23: the adapter verbs insert_one, find_one, find_many, update_one,
\* delete_one and count_documents behave the same in both modes: a verb
\* call on the same collection gives the same result and leaves the same
\* collection whether the configured backend is sqlite or mongodb.
C23_VerbsAgree ==
    \A i \in Ids, e \in StaffCreate, u \in StaffUpdate :
        LET q == { r \in Range(employees) : r.id = i }
            doc == [id |-> e.id, name |-> e.name, email |-> e.email,
                    department |-> e.department, created_at |-> clock + 1]
        IN /\ db_insert_one("sqlite", employees, doc)
                = db_insert_one("mongodb", employees, doc)
           /\ db_find_one("sqlite", employees, q)
                = db_find_one("mongodb", employees, q)
           /\ db_find_many("sqlite", employees, q, 1000)
                = db_find_many("mongodb", employees, q, 1000)
           /\ db_update_one("sqlite", employees, q, u)
                = db_update_one("mongodb", employees, q, u)
           /\ db_delete_one("sqlite", employees, q)
                = db_delete_one("mongodb", employees, q)
           /\ db_count_documents("sqlite", employees, q)
                = db_count_documents("mongodb", employees, q)

\* C24: in the relational backend every multi-statement service operation
\* is transactional: when a step of it fails the store is as before the
\* call (its writes are rolled back), and when it succeeds its write is in
\* the store.
C24_Transactional ==
    ~is_mongodb =>
        /\ \A e \in StaffCreate :
              LET c == create_employee(e) IN
              IF c.res = "OK"
              THEN c.employees = Append(employees, employee_row(e))
              ELSE c.employees = employees
        /\ \A i \in Ids, u \in StaffUpdate :
              LET c == update_employee(i, u) IN
              IF c.res = "OK"
              THEN c.employees = update_one_employee(employees, i, u)
              ELSE c.employees = employees
        /\ \A a \in AttendanceCreate :
              LET c == create_attendance(a) IN
              IF c.res = "OK"
              THEN c.attendance = Append(attendance, attendance_row(a))
              ELSE c.attendance = attendance
        /\ \A n \in AttIds, st \in Statuses :
              LET c == update_attendance(n, st) IN
              IF c.res = "OK"
              THEN c.attendance = set_status(attendance, n, st)
              ELSE c.attendance = attendance

\* C25 as stated: after any operation returns or raises, no connection
\* acquired by it is still open, in either backend.
C25_Original == connections = 0

\* C25: in the relational backend no connection is open after any
\* operation has returned or raised; in the document backend the first
\* operation opens the one client, which stays open and is the only one.
C25_ConnectionsReleased ==
    /\ ~is_mongodb => connections = 0
    /\ is_mongodb => /\ connections \in {0, 1}
                     /\ last.op # "none" => connections = 1

C25_Witness ==
    /\ ~is_mongodb
    /\ Called("create_attendance", "Duplicate")
    /\ connections = 0
    /\ Len(attendance) = 2
    /\ Len(employees) = 1

\* C26: a service never swallows a store-level error and never retries:
\* when a store call of a method fails, the method ends with that failure
\* and has made no store call after the failed one.
C26_NoSwallowNoRetry ==
    \A n \in AttIds, failing \in (SUBSET Attempts) \ {{}} :
        LET first == CHOOSE k \in failing : \A j \in failing : k <= j
            d == delete_attendance_faulty(n, failing)
            u == update_attendance_lookup(n, failing)
        IN /\ d.calls >= first => (d.res = "StoreError" /\ d.calls = first)
           /\ u.calls >= first => (u.res = "StoreError" /\ u.calls = first)

\* C27: in the relational backend the uniqueness of employee ids, employee
\* emails and attendance (employee_id, date) pairs holds in every state of
\* the concurrent creates, and a handler that has passed the duplicate
\* checks and whose key has been inserted meanwhile ends its insert with
\* the store's error, not Duplicate, and inserts nothing.
C27_SqliteConstraint ==
    ~is_mongodb =>
        /\ \A i, j \in DOMAIN employees :
              i # j => /\ employees[i].id # employees[j].id
                       /\ employees[i].email # employees[j].email
        /\ \A i, j \in DOMAIN attendance :
              i # j => ~(/\ attendance[i].employee_id = attendance[j].employee_id
                         /\ attendance[i].date = attendance[j].date)
        /\ \A p \in Procs :
              /\ (/\ At(p, "emp_insert")
                  /\ \/ Stored(pc[p].req.id)
                     \/ EmailStored(pc[p].req.email))
                    => /\ insert_employee(pc[p].req).res = "IntegrityError"
                       /\ insert_employee(pc[p].req).employees = employees
              /\ (/\ At(p, "att_insert")
                  /\ Recorded(pc[p].req.employee_id, pc[p].req.date))
                    => /\ insert_attendance(pc[p].req).res = "IntegrityError"
                       /\ insert_attendance(pc[p].req).attendance = attendance

C27_Witness ==
    /\ ~is_mongodb
    /\ Called("create_attendance", "IntegrityError")
    /\ Len(attendance) = 1
    /\ Len(employees) = 2
    /\ \A p \in Procs : At(p, "idle")

\* C28: in the relational backend, in every reachable state of the
\* concurrent handlers (an attendance create interleaved with a delete of
\* its employee included), the employee_id of every stored attendance row
\* is the id of a stored employee.
C28_SqliteForeignKey ==
    ~is_mongodb => \A r \in Range(attendance) : Stored(r.employee_id)

\* C29: every service operation that ends in an error (NotFound,
\* Duplicate, or a failure raised after the write while re-reading the
\* record or building the response) leaves the stored employees and
\* attendance records exactly as they were before the call.
C29_ErrorsChangeNothing ==
    /\ \A e \in StaffCreate :
          create_employee(e).res # "OK" => create_employee(e).employees = employees
    /\ \A i \in Ids, u \in StaffUpdate :
          update_employee(i, u).res # "OK"
          => update_employee(i, u).employees = employees
    /\ \A i \in Ids :
          delete_employee(i).res # "OK"
          => /\ delete_employee(i).employees = employees
             /\ delete_employee(i).attendance = attendance
    /\ \A a \in AttendanceCreate :
          create_attendance(a).res # "OK"
          => create_attendance(a).attendance = attendance
    /\ \A n \in AttIds, st \in Statuses :
          update_attendance(n, st).res # "OK"
          => update_attendance(n, st).attendance = attendance
    /\ \A n \in AttIds :
          delete_attendance(n).res # "OK"
          => delete_attendance(n).attendance = attendance

\* C30 as stated: right after a successful employee create the summary of
\* that employee is 0 Present and 0 Absent and its attendance list is
\* empty, whatever happened before.
C30_Original ==
    Called("create_employee", "OK") =>
        LET i == employees[Len(employees)].id IN
        /\ get_employee_attendance_summary(i).value.total_present = 0
        /\ get_employee_attendance_summary(i).value.total_absent = 0
        /\ get_employee_attendance(i) = [res |-> "OK", value |-> <<>>]

\* C30: right after a successful employee create the summary of that
\* employee counts exactly the attendance records stored under its id,
\* which are the ones an earlier employee with the same id left behind;
\* when there are none, the summary is 0 and 0 and the list is empty.
C30_FreshEmployee ==
    Called("create_employee", "OK") =>
        LET i == employees[Len(employees)].id
            left == { k \in 1..Len(attendance) : attendance[k].employee_id = i }
            c == get_employee_attendance_summary(i)
        IN /\ c.res = "OK"
           /\ c.value.total_present + c.value.total_absent = Cardinality(left)
           /\ c.value.total_present
                = Cardinality({ k \in left : attendance[k].status = "Present" })
           /\ left = {} => get_employee_attendance(i) = [res |-> "OK", value |-> <<>>]
           /\ left # {} => get_employee_attendance(i).value # <<>>
                            \/ get_employee_attendance(i).res # "OK"

C30_Witness ==
    /\ Called("create_employee", "OK")
    /\ Len(employees) = 1
    /\ clock = 2
    /\ get_employee_attendance_summary(employees[1].id).value.total_present = 1
    /\ get_employee_attendance_summary(employees[1].id).value.total_absent = 1

====
